---- MODULE Spec2Model ----
(***************************************************************************)
(* Model of the mlens model-selection core: the Evaluator                  *)
(* (mlens/model_selection/model_selection.py) together with the           *)
(* collaborators it drives (fold indexer, fold preprocessing, parallel    *)
(* cross-validation) and the stacking Layer / LayerContainer exercised by *)
(* mlens/parallel/tests/test_full_run_blend.py.                           *)
(***************************************************************************)
EXTENDS Integers, Sequences, FiniteSets, TLC

VARIABLES
    ev,      \* the Evaluator object: constructor arguments and attributes
    call,    \* what the last Evaluator method call did, in program order
    out,     \* flat record list of the last cross_validate, completion order
    sent,    \* the same records in dispatch order
    indexer, \* the FoldIndexer: its fold specification and fold plan
    lc       \* the LayerContainer: its layers, their estimators and matrices

vars == <<ev, call, out, sent, indexer, lc>>

-----------------------------------------------------------------------------
(* Bounds of the model *)

MaxSamples == 3      \* rows of the larger data set
MaxFolds == 2        \* largest fold count an Evaluator is built with
MaxIter == 2         \* largest n_iter passed to evaluate
MaxScore == 2        \* scores are drawn from 0..MaxScore
MaxRecords == 3      \* longest synthetic record list handed to _results
TopScore == 1        \* synthetic records score 0..TopScore
MaxRows == 5         \* largest sample count handed to the FoldIndexer alone
MaxLayers == 2       \* most layers of a LayerContainer
MaxFail == 1         \* failing units are drawn from the first MaxFail and the last
MaxSeed == 2         \* random_state is drawn from 0..MaxSeed when draws are checked alone

(* Program constants *)

ErrorScore == -99    \* Evaluator.__init__ default error_score
Seed == 0            \* the random_state the Evaluator is built with

Estimators == {"a", "b"}
\* most units one cross-validation dispatches
MaxUnits == 2 * 2 * MaxIter * MaxFolds
Cases == {"p", "q"}
EstOrder == <<"a", "b">>
CaseOrder == <<"p", "q">>
Datasets == {"X1", "X2"}

\* rows of a data set: X1 is the full one, X2 has a single row
n_samples(X) == IF X = "X1" THEN MaxSamples ELSE 1

-----------------------------------------------------------------------------
(* Generic helpers *)

Range(s) == {s[i] : i \in DOMAIN s}

Min(a, b) == IF a <= b THEN a ELSE b

\* the members of S in the order of the sequence ord
InOrder(ord, S) == SelectSeq(ord, LAMBDA x : x \in S)

RECURSIVE SumSeq(_)
SumSeq(s) == IF s = <<>> THEN 0 ELSE Head(s) + SumSeq(Tail(s))

EmptyMap == [x \in {} |-> 0]

\* a function or sequence as an explicit table of its values
Table(f) == f @@ EmptyMap

-----------------------------------------------------------------------------
(* FoldIndexer: build(sample_count, fold_spec).  Rows are 0 .. n-1, folds  *)
(* are 1 .. k; perm maps a position of the (shuffled) order to a row.      *)

identity(n) == [p \in 0..(n - 1) |-> p]

\* the fold specification is accepted (otherwise ConfigError)
valid_folds(n, k) == k >= 2 /\ k <= n

\* number of test rows of fold i: sizes differ by at most one
fold_size(n, k, i) == (n \div k) + (IF i <= n % k THEN 1 ELSE 0)

\* first position of the test block of fold i
fold_start_uniform(n, k, i) == (i - 1) * (n \div k)

fold_start(n, k, i) == (i - 1) * (n \div k) + Min(i - 1, n % k)

\* positions of the test block of fold i
test_block(n, k, i) ==
    fold_start(n, k, i) .. (fold_start(n, k, i) + fold_size(n, k, i) - 1)

\* ordered list of (train, test) partitions
build(n, k, perm) ==
    [i \in 1..k |->
        [test  |-> {perm[p] : p \in test_block(n, k, i)},
         train |-> {perm[p] : p \in (0..(n - 1)) \ test_block(n, k, i)}]]

\* the permutation a seeded shuffle produces: the same seed gives the same folds
seeded_permutation(n, shuffle, seed) ==
    IF shuffle THEN [p \in 0..(n - 1) |-> (p + seed + 1) % n] ELSE identity(n)

-----------------------------------------------------------------------------
(* ParallelFoldPreprocessor: preprocess_folds(cases, X, y, cv, ...)        *)

NoCase == ""

\* clone_preprocess_cases: the case names of the cloned mapping
clone_preprocess_cases(preprocessing) ==
    IF preprocessing.none THEN {NoCase} ELSE preprocessing.cases

\* one entry per (case, fold): the case's chain fitted on the train rows
preprocess_folds(cases, X, cv, shuffle, seed) ==
    LET n == n_samples(X)
        plan == build(n, cv, seeded_permutation(n, shuffle, seed))
    IN  Table([cf \in cases \X (1..cv) |->
            [X |-> X, fitted_on |-> plan[cf[2]].train,
             train |-> plan[cf[2]].train, test |-> plan[cf[2]].test]])

table_cases(dout) == {cf[1] : cf \in DOMAIN dout}
table_folds(dout) == {cf[2] : cf \in DOMAIN dout}

-----------------------------------------------------------------------------
(* Parameter distributions and Evaluator._draw_params / _param_sets        *)

\* dist.rvs(n, random_state): n values, a function of the seed
rvs(dist, n, seed) == [i \in 1..n |-> dist.lo + ((seed + i - 1) % dist.width)]

DistWide == [lo |-> 1, width |-> 3]
DistNarrow == [lo |-> 5, width |-> 1]

\* the param_dicts arguments evaluate is called with: a complete mapping,
\* and one with no entry for estimator "b"
ParamDictChoices ==
    { ("a" :> ("x" :> DistWide)) @@ ("b" :> (("x" :> DistNarrow) @@ ("y" :> DistWide))),
      ("a" :> ("x" :> DistWide)) }

\* self.param_dicts_[est_name] exists (otherwise KeyError)
has_param_dict(param_dicts, est_name) == est_name \in DOMAIN param_dicts

\* the order a mapping of hyperparameters is iterated in when none is given
ParamOrder == <<"x", "y">>

\* the orders "self.param_dicts_[est_name].items()" may iterate in
ParamOrders == {<<"x", "y">>, <<"y", "x">>}

\* "for i, draw in enumerate(draws): param_draws[i][param] = draw"
fill_first_only(param_draws, param, draws) ==
    Table([i \in 1..Len(param_draws) |->
        IF i = 1 /\ i <= Len(draws)
        THEN Table((param :> draws[i]) @@ param_draws[i])
        ELSE param_draws[i]])

fill(param_draws, param, draws) ==
    Table([i \in 1..Len(param_draws) |->
        IF i <= Len(draws)
        THEN Table((param :> draws[i]) @@ param_draws[i])
        ELSE param_draws[i]])

\* the loop of _draw_params over the hyperparameters dists declares, in the
\* given order: [outcome, param_draws, calls]; calls lists the rvs calls made
draw_loop(dists, n_iter, seed, order) ==
    LET params == InOrder(order, DOMAIN dists)
        RECURSIVE loop(_, _, _)
        loop(j, param_draws, calls) ==
            IF j > Len(params)
            THEN [outcome |-> "ok", param_draws |-> param_draws, calls |-> calls]
            ELSE
            LET param == params[j]
                draws == Table(rvs(dists[param], n_iter, seed))
                made == Append(calls, [param |-> param, n |-> n_iter,
                                       random_state |-> seed, draws |-> draws])
            IN  IF Len(draws) > Len(param_draws)
                THEN [outcome |-> "IndexError", param_draws |-> param_draws,
                      calls |-> made]
                ELSE loop(j + 1, fill(param_draws, param, draws), made)
    IN  loop(1, Table([i \in 1..n_iter |-> EmptyMap]), <<>>)

_draw_params(param_dicts, est_name, n_iter, seed) ==
    draw_loop(param_dicts[est_name], n_iter, seed, ParamOrder).param_draws

\* the first loop of _param_sets: _draw_params for each estimator, with the
\* rvs calls each one made: [param_sets, calls]
draw_all(estimators, param_dicts, n_iter, seed, order) ==
    [param_sets |-> Table([e \in estimators |->
                      draw_loop(param_dicts[e], n_iter, seed, order).param_draws]),
     calls |-> Table([e \in estimators |->
                      draw_loop(param_dicts[e], n_iter, seed, order).calls])]

\* the (estimator-case, draw) key of the parameter map and of a record
est_case(est_name, case) == est_name \o "-" \o case

KeyOrder == <<"a-p", "a-q", "b-p", "b-q">>

\* _param_sets: [outcome, param_sets, param_map]
_param_sets(estimators, param_dicts, n_iter, preprocessing, seed) ==
    IF \E e \in estimators : ~has_param_dict(param_dicts, e)
    THEN [outcome |-> "KeyError", param_sets |-> EmptyMap, param_map |-> EmptyMap]
    ELSE
    LET param_sets ==
            Table([e \in estimators |-> _draw_params(param_dicts, e, n_iter, seed)])
    IN  IF preprocessing.none /\ estimators # {} /\ n_iter > 0
        THEN [outcome |-> "AttributeError", param_sets |-> EmptyMap,
              param_map |-> EmptyMap]
        ELSE
        LET keys == {<<est_case(e, c), d>> :
                        e \in estimators, c \in preprocessing.cases, d \in 1..n_iter}
            est_of(k) == CHOOSE e \in estimators :
                            \E c \in preprocessing.cases : est_case(e, c) = k[1]
        IN  [outcome |-> "ok", param_sets |-> param_sets,
             param_map |-> Table([k \in keys |-> param_sets[est_of(k)][k[2]]])]

-----------------------------------------------------------------------------
(* ParallelCrossValidator: cross_validate(estimators, param_sets, dout,    *)
(* scoring, error_score, ...)                                              *)

Scorings == {"mixed"}

\* scoring(fitted, X, y) on the test partition of a unit
test_score_of(scoring, u) ==
    (u.fold + u.draw + (IF u.est = "a" THEN 0 ELSE 1)
        + (IF u.case = "p" THEN 0 ELSE 1)) % (MaxScore + 1)

\* scoring(fitted, X, y) on the train partition of a unit
train_score_of(scoring, u) == MaxScore - test_score_of(scoring, u)

\* the (estimator, case, draw, fold) units in dispatch order
units_of(estimators, param_sets, dout) ==
    LET E == InOrder(EstOrder, estimators)
        C == InOrder(<<NoCase>> \o CaseOrder, table_cases(dout))
        F == Cardinality(table_folds(dout))
        D(e) == Len(param_sets[e])
        per(e) == Table([i \in 1..(Len(C) * D(e) * F) |->
                     [est   |-> e,
                      case  |-> C[((i - 1) \div (D(e) * F)) + 1],
                      draw  |-> (((i - 1) \div F) % D(e)) + 1,
                      fold  |-> ((i - 1) % F) + 1]])
        RECURSIVE cat(_)
        cat(i) == IF i > Len(E) THEN <<>> ELSE per(E[i]) \o cat(i + 1)
    IN  cat(1)

\* the record of one unit: on a raised fit or score error, error_score twice
fit_and_score(u, param_sets, scoring, error_score, failed) ==
    [estimator   |-> est_case(u.est, u.case),
     test_score  |-> IF failed THEN error_score ELSE test_score_of(scoring, u),
     train_score |-> IF failed THEN error_score ELSE train_score_of(scoring, u),
     time        |-> 1,
     param_draw  |-> u.draw,
     params      |-> param_sets[u.est][u.draw]]

\* one record per unit, in dispatch order; failing is the set of positions
\* whose fit or scoring raises
cross_validate(estimators, param_sets, dout, scoring, error_score, failing) ==
    LET units == units_of(estimators, param_sets, dout)
    IN  Table([i \in 1..Len(units) |->
            fit_and_score(units[i], param_sets, scoring, error_score, i \in failing)])

\* the orders in which n units may complete: order[i] is the dispatch
\* position of the i-th unit to complete
Orders(n) == {o \in [1..n -> 1..n] : \A i, j \in 1..n : o[i] = o[j] => i = j}

dispatch_order(n) == [i \in 1..n |-> i]

\* the flat list of records as collected
gather(records, order) == Table([i \in 1..Len(records) |-> records[order[i]]])

-----------------------------------------------------------------------------
(* Evaluator._results(out, param_map)                                      *)

\* a mean is kept exact, as <<sum, count>>
mean_lt(a, b) == a[1] * b[2] < b[1] * a[2]
mean_eq(a, b) == a[1] * b[2] = b[1] * a[2]

\* the key a record is grouped under: groupby(['estimator', 'param_draw'])
group_key_estimator_only(r) == <<r.estimator, 1>>

group_key(r) == <<r.estimator, r.param_draw>>

\* the records of one (estimator, param_draw) group, in list order
group_of_adjacent(records, k) ==
    LET at == {i \in DOMAIN records : group_key(records[i]) = k}
        first == CHOOSE i \in at : \A j \in at : i <= j
    IN  SubSeq(records, first, first + Cardinality(at) - 1)

group_of(records, k) == SelectSeq(records, LAMBDA r : group_key(r) = k)

column(g, f) == Table([i \in 1..Len(g) |-> g[i][f]])
squares(s) == Table([i \in 1..Len(s) |-> s[i] * s[i]])

\* mean and std of one column: std^2 is <<n*sum(x^2) - sum(x)^2, n*(n-1)>>
agg_mean(s) == <<SumSeq(s), Len(s)>>
agg_std(s) ==
    <<Len(s) * SumSeq(squares(s)) - SumSeq(s) * SumSeq(s), Len(s) * (Len(s) - 1)>>

\* out.groupby(['estimator', 'param_draw']).agg(['mean', 'std'])
groupby_agg(records) ==
    LET keys == {group_key(r) : r \in Range(records)}
    IN  Table([k \in keys |->
            LET g == group_of(records, k)
            IN  [test_score_mean  |-> agg_mean(column(g, "test_score")),
                 test_score_std   |-> agg_std(column(g, "test_score")),
                 train_score_mean |-> agg_mean(column(g, "train_score")),
                 train_score_std  |-> agg_std(column(g, "train_score")),
                 time_mean        |-> agg_mean(column(g, "time")),
                 time_std         |-> agg_std(column(g, "time"))]])

\* position of the maximum of a sequence of means (np.argmax on a Series):
\* a left-to-right scan from position i with the best position so far
RECURSIVE scan_last(_, _, _)
scan_last(means, i, best) ==
    IF i > Len(means) THEN best
    ELSE scan_last(means, i + 1,
                   IF mean_lt(means[i], means[best]) THEN best ELSE i)

argmax_last(means) == scan_last(means, 2, 1)

RECURSIVE scan(_, _, _)
scan(means, i, best) ==
    IF i > Len(means) THEN best
    ELSE scan(means, i + 1, IF mean_lt(means[best], means[i]) THEN i ELSE best)

argmax(means) == scan(means, 2, 1)

\* level 0 of the aggregated index, sorted
level0(cv) == InOrder(KeyOrder, {k[1] : k \in DOMAIN cv})

\* the draws of one estimator key in the aggregated index, ascending
draws_of(cv, e) ==
    LET ds == {k[2] : k \in {x \in DOMAIN cv : x[1] = e}}
    IN  SelectSeq([d \in 1..MaxIter |-> d], LAMBDA d : d \in ds)

\* cv_results[ts_id].groupby(level=0).apply(np.argmax).values
best_index(cv) ==
    LET L == level0(cv)
    IN  Table([i \in 1..Len(L) |->
            LET ds == draws_of(cv, L[i])
            IN  <<L[i], ds[argmax(Table([j \in 1..Len(ds) |->
                                     cv[<<L[i], ds[j]>>].test_score_mean]))]>>])

\* sort_values(by=ts_id, ascending=False) of a short table: ties keep their order
sort_values_desc(rows) ==
    LET pos(i) == 1 + Cardinality({j \in DOMAIN rows :
                        mean_lt(rows[i].test_score_mean, rows[j].test_score_mean)})
                    + Cardinality({j \in DOMAIN rows : j < i
                        /\ mean_eq(rows[i].test_score_mean, rows[j].test_score_mean)})
    IN  Table([p \in 1..Len(rows) |-> rows[CHOOSE i \in DOMAIN rows : pos(i) = p]])

\* [outcome, cv_results, summary, best_idx]
_results(records, param_map) ==
    LET agg == groupby_agg(records)
    IN  IF \E k \in DOMAIN agg : k \notin DOMAIN param_map
        THEN [outcome |-> "IndexingError", cv_results |-> EmptyMap,
              summary |-> <<>>, best_idx |-> <<>>]
        ELSE
        LET cv == Table([k \in DOMAIN agg |->
                      [test_score_mean  |-> agg[k].test_score_mean,
                       test_score_std   |-> agg[k].test_score_std,
                       train_score_mean |-> agg[k].train_score_mean,
                       train_score_std  |-> agg[k].train_score_std,
                       time_mean        |-> agg[k].time_mean,
                       time_std         |-> agg[k].time_std,
                       params           |-> param_map[k]]])
            best == best_index(cv)
            picked == Table([i \in 1..Len(best) |->
                        [estimator        |-> best[i][1],
                         test_score_mean  |-> cv[best[i]].test_score_mean,
                         test_score_std   |-> cv[best[i]].test_score_std,
                         train_score_mean |-> cv[best[i]].train_score_mean,
                         train_score_std  |-> cv[best[i]].train_score_std,
                         time_mean        |-> cv[best[i]].time_mean,
                         time_std         |-> cv[best[i]].time_std,
                         params           |-> cv[best[i]].params]])
        IN  [outcome |-> "ok", cv_results |-> cv,
             summary |-> sort_values_desc(picked), best_idx |-> best]

-----------------------------------------------------------------------------
(* Evaluator                                                               *)

NoPreprocessing == [none |-> TRUE, cases |-> {}]
Pipelines(S) == [none |-> FALSE, cases |-> S]

\* Evaluator.__init__: no fold table, no results yet
new_Evaluator(scoring, preprocessing, cv, shuffle) ==
    [scoring |-> scoring,
     preprocessing |-> preprocessing, cv |-> cv, shuffle |-> shuffle,
     random_state |-> Seed, error_score |-> ErrorScore,
     preprocessing_ |-> {}, has_dout |-> FALSE, dout |-> EmptyMap,
     n_iter |-> 0, estimators_ |-> {}, param_dicts_ |-> EmptyMap,
     param_sets_ |-> EmptyMap, param_map |-> EmptyMap,
     has_results |-> FALSE, cv_results_ |-> EmptyMap,
     summary_ |-> <<>>, best_idx_ |-> <<>>]

\* Evaluator.preprocess: [outcome, self, events, units]; units counts the
\* (case, fold) units handed to the worker pool
preprocess(self, X) ==
    LET cloned == clone_preprocess_cases(self.preprocessing)
        s1 == [self EXCEPT !.preprocessing_ = cloned]
    IN  IF ~valid_folds(n_samples(X), self.cv)
        THEN [outcome |-> "ConfigError", self |-> s1,
              events |-> <<"preprocess_folds">>, units |-> 0]
        ELSE [outcome |-> "ok",
              self |-> [s1 EXCEPT !.has_dout = TRUE,
                           !.dout = preprocess_folds(cloned, X, self.cv,
                                        self.shuffle, self.random_state)],
              events |-> <<"preprocess_folds">>,
              units |-> Cardinality(cloned) * self.cv]

\* "if not hasattr(self, 'dout') or reset_preprocess"
needs_preprocess_reset_ignored(has_dout, reset_preprocess) == ~has_dout

needs_preprocess(has_dout, reset_preprocess) == ~has_dout \/ reset_preprocess

\* "if flush_preprocess: del self.dout"
flush_keeps(self, flush_preprocess) == self

flush(self, flush_preprocess) ==
    IF flush_preprocess
    THEN [self EXCEPT !.has_dout = FALSE, !.dout = EmptyMap]
    ELSE self

\* the error_score evaluate hands to cross_validate
cv_error_score_zero(self) == 0

cv_error_score(self) == self.error_score

\* evaluate up to and including _param_sets: [outcome, self, events, units]
evaluate_setup_params_first(self, X, estimators, param_dicts, n_iter, reset_preprocess) ==
    LET s1 == [self EXCEPT !.n_iter = n_iter, !.estimators_ = estimators,
                           !.param_dicts_ = param_dicts]
        ps == _param_sets(estimators, param_dicts, n_iter, s1.preprocessing,
                          s1.random_state)
        s2 == [s1 EXCEPT !.param_sets_ = ps.param_sets, !.param_map = ps.param_map]
    IN  IF ps.outcome # "ok"
        THEN [outcome |-> ps.outcome, self |-> s1, events |-> <<"_param_sets">>,
              units |-> 0]
        ELSE IF needs_preprocess(s2.has_dout, reset_preprocess)
        THEN LET prep == preprocess(s2, X)
             IN  [prep EXCEPT !.events = <<"_param_sets">> \o prep.events]
        ELSE [outcome |-> "ok", self |-> s2, events |-> <<"_param_sets">>,
              units |-> 0]

evaluate_setup(self, X, estimators, param_dicts, n_iter, reset_preprocess) ==
    LET s1 == [self EXCEPT !.n_iter = n_iter, !.estimators_ = estimators,
                           !.param_dicts_ = param_dicts]
        prep == IF needs_preprocess(s1.has_dout, reset_preprocess)
                THEN preprocess(s1, X)
                ELSE [outcome |-> "ok", self |-> s1, events |-> <<>>, units |-> 0]
    IN  IF prep.outcome # "ok" THEN prep
        ELSE
        LET ps == _param_sets(estimators, param_dicts, n_iter,
                              prep.self.preprocessing, prep.self.random_state)
        IN  [outcome |-> ps.outcome,
             self |-> IF ps.outcome = "ok"
                      THEN [prep.self EXCEPT !.param_sets_ = ps.param_sets,
                                             !.param_map = ps.param_map]
                      ELSE prep.self,
             events |-> prep.events \o <<"_param_sets">>,
             units |-> prep.units]

\* evaluate from cross_validate on: [outcome, self, events, prep_units,
\*                                    cv_units, cv_dout, sent, out]
evaluate_run(pre, flush_preprocess, failing, order) ==
    IF pre.outcome # "ok"
    THEN [outcome |-> pre.outcome, self |-> pre.self, events |-> pre.events,
          prep_units |-> pre.units, cv_units |-> 0, cv_dout |-> EmptyMap,
          sent |-> <<>>, out |-> <<>>]
    ELSE
    LET s2 == pre.self
        records == cross_validate(s2.estimators_, s2.param_sets_, s2.dout,
                                  s2.scoring, cv_error_score(s2), failing)
        got == gather(records, order)
        res == _results(got, s2.param_map)
        ev2 == pre.events \o <<"cross_validate", "_results">>
    IN  IF res.outcome # "ok"
        THEN [outcome |-> res.outcome, self |-> s2, events |-> ev2,
              prep_units |-> pre.units, cv_units |-> Len(records),
              cv_dout |-> s2.dout, sent |-> records, out |-> got]
        ELSE
        LET s3 == [s2 EXCEPT !.has_results = TRUE,
                             !.cv_results_ = res.cv_results,
                             !.summary_ = res.summary,
                             !.best_idx_ = res.best_idx]
            s4 == flush(s3, flush_preprocess)
        IN  [outcome |-> "ok", self |-> s4,
             events |-> IF s4.has_dout THEN ev2 ELSE ev2 \o <<"del dout">>,
             prep_units |-> pre.units, cv_units |-> Len(records),
             cv_dout |-> s2.dout, sent |-> records, out |-> got]

\* Evaluator.evaluate
evaluate(self, X, estimators, param_dicts, n_iter, reset_preprocess, flush_preprocess, failing, order) ==
    evaluate_run(evaluate_setup(self, X, estimators, param_dicts, n_iter,
                                reset_preprocess),
                 flush_preprocess, failing, order)

-----------------------------------------------------------------------------
(* Layer and LayerContainer.  A fitted estimator instance is known by what *)
(* it was fitted on; a prediction by the instance that made it and the row *)
(* it was made for.                                                        *)

\* the (case, estimator) pairs of a layer, in column order
LayerPairs == <<<<"p", "a">>, <<"p", "b">>>>

NoInstance == [case |-> "", est |-> "", depth |-> 0, fitted_on |-> {}]
NoValue == [by |-> NoInstance, row |-> -1]

\* clone the estimator of a pair and fit it on the given rows of the input of
\* the layer at this depth
fit_instance(pair, depth, rows) ==
    [case |-> pair[1], est |-> pair[2], depth |-> depth, fitted_on |-> rows]

\* the rows a fold's instance is fitted on: the fold's train partition
fold_train_all_rows(plan, f) == plan[f].train \cup plan[f].test

fold_train(plan, f) == plan[f].train

new_Layer(n, k) ==
    [fold_est |-> [cf \in (1..Len(LayerPairs)) \X (1..k) |-> NoInstance],
     prod     |-> [c \in 1..Len(LayerPairs) |-> NoInstance],
     P        |-> [rc \in (0..(n - 1)) \X (1..Len(LayerPairs)) |-> NoValue]]

\* one (pair, fold) unit of Layer.fit: fit on the fold's train partition,
\* predict its test partition, scatter at the test rows' positions
fit_fold(layer, plan, depth, c, f) ==
    LET inst == fit_instance(LayerPairs[c], depth, fold_train(plan, f))
    IN  [layer EXCEPT
            !.fold_est[<<c, f>>] = inst,
            !.P = [rc \in DOMAIN layer.P |->
                     IF rc[2] = c /\ rc[1] \in plan[f].test
                     THEN [by |-> inst, row |-> rc[1]]
                     ELSE layer.P[rc]]]

\* the production instance of a pair: fitted on the entire data
fit_production(layer, n, depth, c) ==
    [layer EXCEPT !.prod[c] = fit_instance(LayerPairs[c], depth, 0..(n - 1))]

\* the instance Layer.predict uses for column c
predicting_instance_first_fold(layer, c) == layer.fold_est[<<c, 1>>]

predicting_instance(layer, c) == layer.prod[c]

\* Layer.predict: one column per pair, in the column order of fit
layer_predict(layer, n) ==
    [rc \in (0..(n - 1)) \X (1..Len(LayerPairs)) |->
        [by |-> predicting_instance(layer, rc[2]), row |-> rc[1]]]

NoContainer ==
    [status |-> "new", n |-> 0, current |-> 0, layers |-> <<>>,
     fit_out |-> EmptyMap, predict_out |-> EmptyMap]

NoIndexer ==
    [status |-> "new", n |-> 0, k |-> 0, shuffle |-> FALSE, perm |-> <<>>,
     folds |-> <<>>]

\* FoldIndexer.fit: the fold plan of n samples, or ConfigError
indexer_fit(n, k, shuffle, perm) ==
    IF valid_folds(n, k)
    THEN [status |-> "ok", n |-> n, k |-> k, shuffle |-> shuffle,
          perm |-> perm, folds |-> build(n, k, perm)]
    ELSE [status |-> "ConfigError", n |-> n, k |-> k, shuffle |-> shuffle,
          perm |-> perm, folds |-> <<>>]

\* the orders a shuffle may put n rows in
Shuffles(n) ==
    {q \in [0..(n - 1) -> 0..(n - 1)] :
        \A i, j \in 0..(n - 1) : q[i] = q[j] => i = j}

-----------------------------------------------------------------------------
(* The Evaluator as a state machine: any sequence of preprocess and        *)
(* evaluate calls on one Evaluator.                                        *)

PreprocessingChoices == {NoPreprocessing, Pipelines({"p"}), Pipelines(Cases)}
EstimatorChoices == {{"a"}, Estimators}

NoCall ==
    [op |-> "init", X |-> "", reset |-> FALSE, flush |-> FALSE,
     had_dout |-> FALSE, dout_before |-> EmptyMap, events |-> <<>>,
     outcome |-> "ok", prep_units |-> 0, cv_units |-> 0, cv_dout |-> EmptyMap,
     failing |-> {}]

Init ==
    /\ \E scoring \in Scorings, preprocessing \in PreprocessingChoices,
          cv \in 2..MaxFolds :
            ev = new_Evaluator(scoring, preprocessing, cv, TRUE)
    /\ call = NoCall
    /\ out = <<>>
    /\ sent = <<>>
    /\ indexer = NoIndexer
    /\ lc = NoContainer

Preprocess ==
    \E X \in Datasets :
        \E r \in {preprocess(ev, X)} :
            /\ ev' = r.self
            /\ call' = [op |-> "preprocess", X |-> X, reset |-> FALSE,
                        flush |-> FALSE, had_dout |-> ev.has_dout,
                        dout_before |-> ev.dout, events |-> r.events,
                        outcome |-> r.outcome, prep_units |-> r.units,
                        cv_units |-> 0, cv_dout |-> EmptyMap, failing |-> {}]
            /\ out' = <<>>
            /\ sent' = <<>>
            /\ UNCHANGED <<indexer, lc>>

\* the positions evaluate's cross-validation may fail at: none (0), one of
\* the first MaxFail units, or the last unit
FailChoices(pre) ==
    IF pre.outcome # "ok" THEN {0}
    ELSE LET n == Len(units_of(pre.self.estimators_, pre.self.param_sets_,
                               pre.self.dout))
         IN  {i \in 0..n : i <= MaxFail \/ i = n}

Evaluate ==
    \E X \in Datasets, estimators \in EstimatorChoices,
       param_dicts \in ParamDictChoices, n_iter \in 1..MaxIter,
       reset_preprocess \in BOOLEAN, flush_preprocess \in BOOLEAN :
        \E pre \in {evaluate_setup(ev, X, estimators, param_dicts, n_iter,
                                   reset_preprocess)} :
        \E fail \in FailChoices(pre) :
        \E r \in {evaluate_run(pre, flush_preprocess,
                               IF fail = 0 THEN {} ELSE {fail},
                               dispatch_order(MaxUnits))} :
            /\ ev' = r.self
            /\ call' = [op |-> "evaluate", X |-> X,
                        reset |-> reset_preprocess,
                        flush |-> flush_preprocess,
                        had_dout |-> ev.has_dout, dout_before |-> ev.dout,
                        events |-> r.events, outcome |-> r.outcome,
                        prep_units |-> r.prep_units,
                        cv_units |-> r.cv_units, cv_dout |-> r.cv_dout,
                        failing |-> IF fail = 0 THEN {} ELSE {fail}]
            /\ out' = r.out
            /\ sent' = r.sent
            /\ UNCHANGED <<indexer, lc>>

Next == Preprocess \/ Evaluate

Spec == Init /\ [][Next]_vars

-----------------------------------------------------------------------------
(* The result reduction on its own: Evaluator._results applied to a flat   *)
(* list of records that the parallel units hand back in any order.         *)

FullParamDicts ==
    ("a" :> ("x" :> DistWide)) @@ ("b" :> (("x" :> DistNarrow) @@ ("y" :> DistWide)))

\* an Evaluator that has drawn MaxIter parameter sets for both estimators
ReadyEvaluator ==
    evaluate_setup(new_Evaluator("mixed", Pipelines({"p"}), 2, TRUE), "X1",
                   Estimators, FullParamDicts, MaxIter, FALSE).self

SyntheticKeys == {k \in DOMAIN ReadyEvaluator.param_map : TRUE}

\* the records a unit of key k can hand back
SyntheticRecords ==
    {[estimator |-> k[1], test_score |-> t, train_score |-> TopScore - t,
      time |-> 1, param_draw |-> k[2], params |-> ReadyEvaluator.param_map[k]] :
        k \in SyntheticKeys, t \in 0..TopScore}

KeyRank(k) == CHOOSE i \in DOMAIN KeyOrder : KeyOrder[i] = k

\* dispatch keeps the units of a key together: estimators, then draws
InDispatchOrder(records) ==
    \A i \in DOMAIN records, j \in DOMAIN records :
        i < j =>
            \/ KeyRank(records[i].estimator) < KeyRank(records[j].estimator)
            \/ /\ records[i].estimator = records[j].estimator
               /\ records[i].param_draw <= records[j].param_draw

InitResults ==
    /\ ev = ReadyEvaluator
    /\ call = NoCall
    /\ \E n \in 1..MaxRecords :
          sent \in {r \in [1..n -> SyntheticRecords] : InDispatchOrder(r)}
    /\ out = <<>>
    /\ indexer = NoIndexer
    /\ lc = NoContainer

\* the units complete in some order and the flat list is reduced
Reduce ==
    /\ call.op = "init"
    /\ \E order \in Orders(Len(sent)) :
       \E got \in {gather(sent, order)} :
       \E r \in {_results(got, ev.param_map)} :
          /\ out' = got
          /\ ev' = IF r.outcome = "ok"
                   THEN [ev EXCEPT !.has_results = TRUE,
                                   !.cv_results_ = r.cv_results,
                                   !.summary_ = r.summary,
                                   !.best_idx_ = r.best_idx]
                   ELSE ev
          /\ call' = [call EXCEPT !.op = "_results", !.outcome = r.outcome,
                                  !.events = <<"_results">>,
                                  !.cv_units = Len(sent)]
          /\ sent' = sent
          /\ UNCHANGED <<indexer, lc>>

NextResults == Reduce

SpecResults == InitResults /\ [][NextResults]_vars

-----------------------------------------------------------------------------
(* The parameter draws on their own: the first loop of _param_sets on an   *)
(* Evaluator whose evaluate has set n_iter, estimators_ and param_dicts_.  *)

\* the hyperparameter mappings an estimator may declare: none, one or two
\* hyperparameters, each with either distribution
DistChoices == {DistWide, DistNarrow}

HyperChoices ==
    {EmptyMap} \cup {("x" :> d) : d \in DistChoices}
               \cup {("y" :> d) : d \in DistChoices}
               \cup {("x" :> d) @@ ("y" :> e) : d \in DistChoices, e \in DistChoices}

InitDraws ==
    /\ \E pa \in HyperChoices, pb \in HyperChoices, n_iter \in 0..MaxIter,
          seed \in 0..MaxSeed :
            ev = [new_Evaluator("mixed", Pipelines({"p"}), 2, TRUE) EXCEPT
                     !.random_state = seed, !.n_iter = n_iter,
                     !.estimators_ = Estimators,
                     !.param_dicts_ = ("a" :> pa) @@ ("b" :> pb)]
    /\ call = NoCall
    /\ out = <<>>
    /\ sent = <<>>
    /\ indexer = NoIndexer
    /\ lc = NoContainer

\* "for est_name, _ in self.estimators_.items():
\*      param_sets[est_name] = self._draw_params(est_name)"
DrawParams ==
    /\ call.op = "init"
    /\ \E order \in ParamOrders :
       \E r \in {draw_all(ev.estimators_, ev.param_dicts_, ev.n_iter,
                          ev.random_state, order)} :
          /\ ev' = [ev EXCEPT !.param_sets_ = r.param_sets]
          /\ sent' = r.calls
          /\ call' = [call EXCEPT !.op = "_draw_params",
                                  !.events = <<"_draw_params">>]
          /\ UNCHANGED <<out, indexer, lc>>

NextDraws == DrawParams

SpecDraws == InitDraws /\ [][NextDraws]_vars

-----------------------------------------------------------------------------
(* The FoldIndexer on its own: one fit of any fold specification.         *)

IdleEvaluator == new_Evaluator("mixed", NoPreprocessing, 2, TRUE)

InitFolds ==
    /\ indexer = NoIndexer
    /\ lc = NoContainer
    /\ ev = IdleEvaluator
    /\ call = NoCall
    /\ out = <<>>
    /\ sent = <<>>

IndexerFit ==
    /\ indexer.status = "new"
    /\ \E n \in 1..MaxRows, k \in 1..(MaxRows + 1), shuffle \in BOOLEAN :
        \E perm \in (IF shuffle THEN Shuffles(n) ELSE {identity(n)}) :
            /\ indexer' = indexer_fit(n, k, shuffle, perm)
            /\ UNCHANGED <<ev, call, out, sent, lc>>

NextFolds == IndexerFit

SpecFolds == InitFolds /\ [][NextFolds]_vars

-----------------------------------------------------------------------------
(* The stacking engine: a LayerContainer is fitted layer by layer, the     *)
(* (pair, fold) units of a layer completing in any order, and then         *)
(* predicts.                                                               *)

InitLayers == InitFolds

\* LayerContainer.fit begins: the indexer is fitted on X, the layers are new
FitStart ==
    /\ lc.status = "new"
    /\ \E layers \in 1..MaxLayers, n \in 2..MaxSamples, shuffle \in BOOLEAN :
       \E k \in 2..n :
       \E perm \in (IF shuffle THEN Shuffles(n) ELSE {identity(n)}) :
          /\ indexer' = indexer_fit(n, k, shuffle, perm)
          /\ lc' = [status |-> "fitting", n |-> n, current |-> 1,
                    layers |-> [i \in 1..layers |-> new_Layer(n, k)],
                    fit_out |-> EmptyMap, predict_out |-> EmptyMap]
    /\ UNCHANGED <<ev, call, out, sent>>

\* one (pair, fold) unit of the current layer completes
FitFold ==
    /\ lc.status = "fitting"
    /\ \E c \in 1..Len(LayerPairs), f \in 1..indexer.k :
          /\ lc.layers[lc.current].fold_est[<<c, f>>] = NoInstance
          /\ lc' = [lc EXCEPT !.layers[lc.current] =
                        fit_fold(lc.layers[lc.current], indexer.folds,
                                 lc.current, c, f)]
    /\ UNCHANGED <<ev, call, out, sent, indexer>>

\* after all folds of the current layer, a pair's production instance is fitted
FitProduction ==
    /\ lc.status = "fitting"
    /\ \A cf \in DOMAIN lc.layers[lc.current].fold_est :
          lc.layers[lc.current].fold_est[cf] # NoInstance
    /\ \E c \in 1..Len(LayerPairs) :
          /\ lc.layers[lc.current].prod[c] = NoInstance
          /\ lc' = [lc EXCEPT !.layers[lc.current] =
                        fit_production(lc.layers[lc.current], lc.n,
                                       lc.current, c)]
    /\ UNCHANGED <<ev, call, out, sent, indexer>>

\* the current layer is complete: its matrix feeds the next layer, or is
\* what fit returns
LayerDone ==
    /\ lc.status = "fitting"
    /\ \A c \in 1..Len(LayerPairs) : lc.layers[lc.current].prod[c] # NoInstance
    /\ lc' = IF lc.current < Len(lc.layers)
             THEN [lc EXCEPT !.current = lc.current + 1]
             ELSE [lc EXCEPT !.status = "fitted",
                             !.fit_out = lc.layers[lc.current].P]
    /\ UNCHANGED <<ev, call, out, sent, indexer>>

\* LayerContainer.predict(X): every layer predicts in turn, the last
\* layer's matrix is returned
Predict ==
    /\ lc.status = "fitted"
    /\ lc.predict_out = EmptyMap
    /\ lc' = [lc EXCEPT !.predict_out = layer_predict(lc.layers[Len(lc.layers)], lc.n)]
    /\ UNCHANGED <<ev, call, out, sent, indexer>>

NextLayers == FitStart \/ FitFold \/ FitProduction \/ LayerDone \/ Predict

SpecLayers == InitLayers /\ [][NextLayers]_vars

-----------------------------------------------------------------------------
(* Properties of the Evaluator (specification Spec)                        *)

Count(s, x) == Cardinality({i \in DOMAIN s : s[i] = x})
Before(s, x, y) ==
    \A i \in DOMAIN s, j \in DOMAIN s : (s[i] = x /\ s[j] = y) => i < j

EvaluateCalled == call.op = "evaluate"
EvaluateReturned == call.op = "evaluate" /\ call.outcome = "ok"

\* C3: an evaluate call with reset_preprocess = false made while a fold table
\* is cached runs no fold preprocessing, cross-validates on the table cached
\* earlier and leaves that table in place (unless the same call flushes it at
\* its end); an evaluate call with reset_preprocess = true, or made with no
\* cached table, runs fold preprocessing exactly once, before cross-validation.
C3_FoldTableCaching ==
    EvaluateCalled =>
        /\ (call.had_dout /\ ~call.reset) =>
              /\ Count(call.events, "preprocess_folds") = 0
              /\ call.prep_units = 0
              /\ call.cv_units > 0 => call.cv_dout = call.dout_before
              /\ ~(call.flush /\ call.outcome = "ok") =>
                    ev.has_dout /\ ev.dout = call.dout_before
        /\ (~call.had_dout \/ call.reset) =>
              /\ Count(call.events, "preprocess_folds") = 1
              /\ Before(call.events, "preprocess_folds", "cross_validate")
              /\ call.cv_units > 0 =>
                    call.cv_dout = preprocess_folds(
                        clone_preprocess_cases(ev.preprocessing), call.X,
                        ev.cv, ev.shuffle, ev.random_state)

\* C3 witness: evaluate returned having reused a table cached from other data
C3_Witness ==
    /\ EvaluateReturned /\ call.had_dout /\ ~call.reset /\ call.cv_units > 0
    /\ \E cf \in DOMAIN call.cv_dout : call.cv_dout[cf].X # call.X

\* C4: an evaluate call that returns with flush_preprocess = true has run
\* cross-validation and result reduction on the fold table before deleting
\* it, and leaves no cached table; with flush_preprocess = false the table it
\* cross-validated on stays cached.  Every evaluate call that starts without a
\* cached table (so also the call after a flush) runs fold preprocessing first.
C4_FlushAfterResults ==
    /\ EvaluateReturned =>
          /\ call.cv_dout # EmptyMap
          /\ ev.has_results
          /\ {k[1] : k \in DOMAIN ev.cv_results_} =
                {est_case(e, cf[1]) : e \in ev.estimators_, cf \in DOMAIN call.cv_dout}
          /\ IF call.flush
             THEN /\ ~ev.has_dout
                  /\ Count(call.events, "del dout") = 1
                  /\ Before(call.events, "cross_validate", "del dout")
                  /\ Before(call.events, "_results", "del dout")
             ELSE /\ ev.has_dout /\ ev.dout = call.cv_dout
                  /\ Count(call.events, "del dout") = 0
    /\ (EvaluateCalled /\ ~call.had_dout) =>
          call.events # <<>> /\ Head(call.events) = "preprocess_folds"

\* C4 witness: a flushing evaluate has returned
C4_Witness == EvaluateReturned /\ call.flush /\ call.had_dout /\ ~ev.has_dout

\* C6: when the fit or scoring of one unit raises, its record carries
\* error_score as test_score and as train_score, every other unit still yields
\* its own scores, there is exactly one record per (estimator, case, draw,
\* fold) unit, and evaluate returns complete results and summary tables.
C6_RecoverableFitError ==
    (EvaluateCalled /\ call.cv_units > 0) =>
        LET folds == table_folds(call.cv_dout)
            keys == {<<est_case(e, c), d>> : e \in ev.estimators_,
                        c \in table_cases(call.cv_dout), d \in 1..ev.n_iter}
        IN  /\ call.outcome = "ok"
            /\ Len(sent) = call.cv_units
            /\ Len(sent) = Cardinality(keys) * Cardinality(folds)
            /\ \A k \in keys : Len(group_of(sent, k)) = Cardinality(folds)
            /\ \A i \in DOMAIN sent :
                  IF i \in call.failing
                  THEN /\ sent[i].test_score = ev.error_score
                       /\ sent[i].train_score = ev.error_score
                  ELSE /\ sent[i].test_score \in 0..MaxScore
                       /\ sent[i].train_score \in 0..MaxScore
            /\ DOMAIN ev.cv_results_ = keys
            /\ {ev.summary_[i].estimator : i \in DOMAIN ev.summary_} =
                  {k[1] : k \in keys}
            /\ Len(ev.summary_) = Cardinality({k[1] : k \in keys})

\* C6 witness: evaluate returned although one unit raised
C6_Witness ==
    /\ EvaluateReturned /\ call.failing # {} /\ Len(sent) > 1
    /\ \E i \in DOMAIN sent : sent[i].test_score = ev.error_score

ConfigErrors == {"ConfigError", "KeyError"}

\* C7 as claimed: a configuration error is raised before any parallel unit,
\* of fold preprocessing or of cross-validation, has been dispatched.
C7_ErrorBeforeAnyDispatch ==
    (EvaluateCalled /\ call.outcome \in ConfigErrors) =>
        call.prep_units = 0 /\ call.cv_units = 0

\* C7 amended: a configuration error is raised before any cross-validation
\* unit is dispatched; an invalid fold count is raised before any fold
\* preprocessing unit is dispatched, while a malformed parameter mapping is
\* raised after fold preprocessing has dispatched its units exactly when the
\* call preprocesses (no cached table, or reset_preprocess = true).
C7_ErrorBeforeCrossValidation ==
    (EvaluateCalled /\ call.outcome \in ConfigErrors) =>
        /\ call.cv_units = 0
        /\ Count(call.events, "cross_validate") = 0
        /\ call.outcome = "ConfigError" => call.prep_units = 0
        /\ call.outcome = "KeyError" =>
              (call.prep_units > 0 <=> (~call.had_dout \/ call.reset))

\* C7 witness: the first evaluate call fails on its parameter mapping after
\* the fold table has been built
C7_Witness ==
    /\ EvaluateCalled /\ call.outcome = "KeyError" /\ ~call.had_dout
    /\ call.prep_units > 0 /\ ev.has_dout

\* rows of the results table that belong to estimator e (any case)
rows_of(cv, e) == {k \in DOMAIN cv : \E c \in Cases : k[1] = est_case(e, c)}
summary_rows_of(summary, e) ==
    {i \in DOMAIN summary : \E c \in Cases : summary[i].estimator = est_case(e, c)}

\* C8 as claimed: n_iter aggregated rows and one summary row per estimator,
\* whatever the preprocessing cases.
C8_RowsPerEstimator ==
    EvaluateReturned =>
        /\ \A e \in ev.estimators_ :
              Cardinality(rows_of(ev.cv_results_, e)) = ev.n_iter
        /\ Len(ev.summary_) = Cardinality(ev.estimators_)

\* C8 amended: the results table holds exactly n_iter aggregated rows, and the
\* summary exactly one row, for each (estimator, preprocessing case) pair: an
\* estimator has n_iter * cases rows and cases summary rows, whatever the
\* number of folds.
C8_RowsPerEstimatorCase ==
    EvaluateReturned =>
        LET cases == table_cases(call.cv_dout)
        IN  /\ \A e \in ev.estimators_ :
                  /\ Cardinality(rows_of(ev.cv_results_, e)) =
                        ev.n_iter * Cardinality(cases)
                  /\ Cardinality(summary_rows_of(ev.summary_, e)) =
                        Cardinality(cases)
                  /\ \A c \in cases :
                        /\ {k[2] : k \in {x \in DOMAIN ev.cv_results_ :
                                            x[1] = est_case(e, c)}} = 1..ev.n_iter
                        /\ Cardinality({i \in DOMAIN ev.summary_ :
                              ev.summary_[i].estimator = est_case(e, c)}) = 1
            /\ Cardinality(DOMAIN ev.cv_results_) =
                  ev.n_iter * Cardinality(cases) * Cardinality(ev.estimators_)
            /\ Len(ev.summary_) = Cardinality(cases) * Cardinality(ev.estimators_)
            /\ Len(ev.best_idx_) = Len(ev.summary_)

\* C8 witness: two estimators, two cases, n_iter draws over every fold
C8_Witness ==
    /\ EvaluateReturned /\ ev.n_iter = MaxIter
    /\ ev.estimators_ = Estimators /\ table_cases(call.cv_dout) = Cases
    /\ Len(ev.summary_) = 4

-----------------------------------------------------------------------------
(* Properties of the result reduction (specification SpecResults)          *)

Reduced == call.op = "_results" /\ call.outcome = "ok"

\* the exact mean test score of the records of key k in a list
mean_test_score(records, k) ==
    LET at == {i \in DOMAIN records :
                 records[i].estimator = k[1] /\ records[i].param_draw = k[2]}
        RECURSIVE total(_)
        total(S) == IF S = {} THEN 0
                    ELSE LET i == CHOOSE x \in S : TRUE
                         IN  records[i].test_score + total(S \ {i})
    IN  <<total(at), Cardinality(at)>>

keys_of(records) ==
    {<<records[i].estimator, records[i].param_draw>> : i \in DOMAIN records}

\* C5: for every estimator key of the records, the summary holds exactly one
\* row, equal to the aggregated row of the draw whose mean test score is the
\* maximum among that key's draws, and among several draws with the maximum
\* mean it is the one with the lowest draw index.
C5_BestDrawSelection ==
    Reduced =>
        LET keys == keys_of(sent)
        IN  /\ {ev.best_idx_[i] : i \in DOMAIN ev.best_idx_} \subseteq keys
            /\ \A e \in {k[1] : k \in keys} :
                  \E d \in {k[2] : k \in {x \in keys : x[1] = e}} :
                      /\ \A k \in keys : k[1] = e =>
                            /\ ~mean_lt(mean_test_score(sent, <<e, d>>),
                                        mean_test_score(sent, k))
                            /\ k[2] < d =>
                                  mean_lt(mean_test_score(sent, k),
                                          mean_test_score(sent, <<e, d>>))
                      /\ Cardinality({i \in DOMAIN ev.best_idx_ :
                                        ev.best_idx_[i][1] = e}) = 1
                      /\ \E i \in DOMAIN ev.best_idx_ : ev.best_idx_[i] = <<e, d>>
                      /\ Cardinality({i \in DOMAIN ev.summary_ :
                                        ev.summary_[i].estimator = e}) = 1
                      /\ \A i \in DOMAIN ev.summary_ :
                            ev.summary_[i].estimator = e =>
                               /\ ev.summary_[i].params = ev.cv_results_[<<e, d>>].params
                               /\ ev.summary_[i].test_score_mean =
                                     ev.cv_results_[<<e, d>>].test_score_mean
                               /\ ev.summary_[i].train_score_mean =
                                     ev.cv_results_[<<e, d>>].train_score_mean
                               /\ mean_eq(ev.summary_[i].test_score_mean,
                                          mean_test_score(sent, <<e, d>>))

\* C5 witness: two draws of one key tie for the best mean and a third record
\* of another key is present; the first draw is the one selected
C5_Witness ==
    /\ Reduced
    /\ \E e \in {k[1] : k \in keys_of(sent)} :
          /\ {<<e, 1>>, <<e, 2>>} \subseteq keys_of(sent)
          /\ mean_eq(mean_test_score(sent, <<e, 1>>), mean_test_score(sent, <<e, 2>>))
          /\ \E i \in DOMAIN ev.best_idx_ : ev.best_idx_[i] = <<e, 1>>

\* C10: whatever the order in which the units complete, every record is
\* grouped under the (estimator-case, draw) key it carries, and the
\* aggregated table, the best draw per estimator key and the summary are
\* those of the list in dispatch order.
C10_OrderIndependence ==
    Reduced =>
        /\ DOMAIN ev.cv_results_ = keys_of(sent)
        /\ \A k \in keys_of(sent) :
              ev.cv_results_[k].test_score_mean = mean_test_score(sent, k)
        /\ ev.cv_results_ = _results(sent, ev.param_map).cv_results
        /\ ev.best_idx_ = _results(sent, ev.param_map).best_idx
        /\ ev.summary_ = _results(sent, ev.param_map).summary

\* C10 witness: records of two keys were collected interleaved, out of
\* dispatch order
C10_Witness ==
    /\ Reduced /\ Len(out) = 3 /\ out # sent
    /\ out[1].estimator = out[3].estimator /\ out[1].param_draw = out[3].param_draw
    /\ out[2].estimator # out[1].estimator
    /\ out[1].test_score # out[3].test_score

-----------------------------------------------------------------------------
(* Properties of the FoldIndexer (specification SpecFolds)                 *)

\* C2: for 2 <= k <= n, shuffled or not, the test partitions of the fold
\* plan are pairwise disjoint, their union is exactly 0 .. n-1, and no fold's
\* train partition contains an index of its own test partition.
C2_FoldCoverage ==
    (indexer.status = "ok") =>
        /\ 2 <= indexer.k /\ indexer.k <= indexer.n
        /\ DOMAIN indexer.folds = 1..indexer.k
        /\ \A i, j \in 1..indexer.k :
              i # j => indexer.folds[i].test \cap indexer.folds[j].test = {}
        /\ UNION {indexer.folds[i].test : i \in 1..indexer.k} = 0..(indexer.n - 1)
        /\ \A i \in 1..indexer.k :
              /\ indexer.folds[i].train \cap indexer.folds[i].test = {}
              /\ indexer.folds[i].test # {}

\* C2 witness: a shuffled plan whose folds differ in size
C2_Witness ==
    /\ indexer.status = "ok" /\ indexer.shuffle /\ indexer.perm # identity(indexer.n)
    /\ indexer.n % indexer.k # 0 /\ indexer.k >= 3

-----------------------------------------------------------------------------
(* Properties of the stacking engine (specification SpecLayers)            *)

\* the fold whose test partition holds row r
fold_of_row(plan, r) == CHOOSE f \in DOMAIN plan : r \in plan[f].test

\* the matrix obtained by fitting, per fold, on that fold's train rows only
\* and predicting its test rows, placed at the test rows' positions
reference_fit(plan, n, depth) ==
    [rc \in (0..(n - 1)) \X (1..Len(LayerPairs)) |->
        [by  |-> [case |-> LayerPairs[rc[2]][1], est |-> LayerPairs[rc[2]][2],
                  depth |-> depth,
                  fitted_on |-> plan[fold_of_row(plan, rc[1])].train],
         row |-> rc[1]]]

\* the matrix obtained by fitting each pair on the full data and predicting X
reference_predict(n, depth) ==
    [rc \in (0..(n - 1)) \X (1..Len(LayerPairs)) |->
        [by  |-> [case |-> LayerPairs[rc[2]][1], est |-> LayerPairs[rc[2]][2],
                  depth |-> depth, fitted_on |-> 0..(n - 1)],
         row |-> rc[1]]]

\* C1: in every layer, whatever has been written into row r of the prediction
\* matrix was predicted by an instance fitted on a train partition without r,
\* and the matrix fit returns, and that of every completed layer, is the
\* reference matrix.
C1_OutOfFold ==
    /\ \A i \in DOMAIN lc.layers : \A rc \in DOMAIN lc.layers[i].P :
          lc.layers[i].P[rc] # NoValue =>
             /\ rc[1] \notin lc.layers[i].P[rc].by.fitted_on
             /\ lc.layers[i].P[rc].row = rc[1]
             /\ \E f \in 1..indexer.k :
                   /\ rc[1] \in indexer.folds[f].test
                   /\ lc.layers[i].P[rc].by = lc.layers[i].fold_est[<<rc[2], f>>]
                   /\ lc.layers[i].P[rc].by.fitted_on = indexer.folds[f].train
    /\ \A i \in DOMAIN lc.layers :
          (i < lc.current \/ lc.status = "fitted") =>
             lc.layers[i].P = reference_fit(indexer.folds, lc.n, i)
    /\ lc.status = "fitted" =>
          lc.fit_out = reference_fit(indexer.folds, lc.n, Len(lc.layers))

\* C1 witness: a two-layer container has been fitted on shuffled folds
C1_Witness ==
    /\ lc.status = "fitted" /\ Len(lc.layers) = 2 /\ indexer.shuffle
    /\ indexer.perm # identity(indexer.n) /\ indexer.n > indexer.k

\* C9: predict after fit uses, for every pair, the production instance fitted
\* on the entire data, never a per-fold instance, and assembles the columns in
\* the order of fit: the matrix equals the reference obtained by fitting each
\* pair on the full data and predicting X.
C9_PredictUsesProduction ==
    (lc.status = "fitted" /\ lc.predict_out # EmptyMap) =>
        LET last == lc.layers[Len(lc.layers)]
        IN  /\ lc.predict_out = reference_predict(lc.n, Len(lc.layers))
            /\ \A rc \in DOMAIN lc.predict_out :
                  /\ lc.predict_out[rc].by = last.prod[rc[2]]
                  /\ lc.predict_out[rc].by.fitted_on = 0..(lc.n - 1)
                  /\ \A f \in 1..indexer.k :
                        lc.predict_out[rc].by # last.fold_est[<<rc[2], f>>]
                  /\ lc.predict_out[rc].by.case = lc.fit_out[rc].by.case
                  /\ lc.predict_out[rc].by.est = lc.fit_out[rc].by.est

\* C9 witness: a fitted container has predicted
C9_Witness ==
    /\ lc.status = "fitted" /\ lc.predict_out # EmptyMap
    /\ Len(lc.layers) = 2 /\ indexer.k >= 2

-----------------------------------------------------------------------------
(* Properties of the parameter draws (specification SpecDraws)             *)

Drawn == call.op = "_draw_params"

\* the rvs calls the _draw_params of estimator e made for hyperparameter p
calls_for(e, p) == {j \in DOMAIN sent[e] : sent[e][j].param = p}

\* C11: for each estimator exactly one draw call, of n_iter values, is made
\* per declared hyperparameter and no other; the result is a list of exactly
\* n_iter dictionaries, and dictionary i has exactly the declared
\* hyperparameter names as keys and maps each name to the i-th value of that
\* hyperparameter's draw call.  With n_iter = 0 the list is empty, and with no
\* declared hyperparameters every dictionary is empty.
C11_ParameterDrawing ==
    Drawn =>
        \A e \in ev.estimators_ :
            LET declared == DOMAIN ev.param_dicts_[e]
                param_draws == ev.param_sets_[e]
            IN  /\ Len(sent[e]) = Cardinality(declared)
                /\ \A p \in declared :
                      /\ Cardinality(calls_for(e, p)) = 1
                      /\ \A j \in calls_for(e, p) :
                            /\ sent[e][j].n = ev.n_iter
                            /\ Len(sent[e][j].draws) = ev.n_iter
                /\ DOMAIN param_draws = 1..ev.n_iter
                /\ \A i \in 1..ev.n_iter :
                      /\ DOMAIN param_draws[i] = declared
                      /\ \A p \in declared : \A j \in calls_for(e, p) :
                            param_draws[i][p] = sent[e][j].draws[i]

\* C11 witness: with at least two draws, one estimator declares two
\* hyperparameters whose values differ between the first two draws and
\* between each other, and the other estimator declares none
C11_Witness ==
    /\ Drawn
    /\ ev.n_iter >= 2
    /\ DOMAIN ev.param_dicts_["a"] = {}
    /\ DOMAIN ev.param_dicts_["b"] = {"x", "y"}
    /\ ev.param_sets_["b"][1]["y"] # ev.param_sets_["b"][2]["y"]
    /\ ev.param_sets_["b"][2]["x"] # ev.param_sets_["b"][2]["y"]
    /\ sent["b"][1].param = "y"

-----------------------------------------------------------------------------
(* The parameter map against the fold table (specification Spec)           *)

\* an evaluate call that had a fold table and an entry of param_dicts for
\* every estimator, so that _param_sets built the parameter map from them
ParamMapBuilt ==
    /\ call.op = "evaluate"
    /\ Count(call.events, "_param_sets") = 1
    /\ call.outcome # "KeyError"

\* the fold table the call had
table_used == IF call.outcome = "ok" THEN call.cv_dout ELSE ev.dout

\* the estimator-case names of a fold table and of a parameter map
table_names(dout) == {est_case(e, c) : e \in ev.estimators_, c \in table_cases(dout)}
map_names(param_map) == {k[1] : k \in DOMAIN param_map}

\* the records agree with the parameter map: every (estimator-case, draw) key
\* of a record has an entry, the draw-th dictionary of the record's estimator
records_mapped ==
    \A i \in DOMAIN out :
        /\ <<out[i].estimator, out[i].param_draw>> \in DOMAIN ev.param_map
        /\ ev.param_map[<<out[i].estimator, out[i].param_draw>>] = out[i].params
        /\ \E e \in ev.estimators_ :
              /\ \E c \in table_cases(table_used) : out[i].estimator = est_case(e, c)
              /\ out[i].params = ev.param_sets_[e][out[i].param_draw]

\* C12: after any sequence of preprocess and evaluate calls, an evaluate call
\* with a fold table and complete parameter distributions reaches result
\* reduction; there the parameter map holds an entry for every
\* (estimator-case, draw) key of the cross-validation records, the draw-th
\* parameter dictionary of that estimator, and the cases the parameter map is
\* built from are the cases of the fold table, also for an Evaluator built
\* with the default of no preprocessing.
C12_ParamMapMatchesFoldTable ==
    ParamMapBuilt =>
        /\ Count(call.events, "_results") = 1
        /\ call.outcome = "ok"
        /\ records_mapped
        /\ map_names(ev.param_map) = table_names(table_used)

\* C12 for an Evaluator built with a mapping of preprocessing cases: the
\* parameter map and the fold table are built from the same case names
C12_MappingPreprocessing ==
    (ParamMapBuilt /\ ~ev.preprocessing.none) =>
        /\ Count(call.events, "_results") = 1
        /\ call.outcome = "ok"
        /\ records_mapped
        /\ map_names(ev.param_map) = table_names(table_used)
        /\ DOMAIN ev.param_map =
              {<<n, d>> : n \in table_names(table_used), d \in 1..ev.n_iter}

\* C12 witness: an Evaluator built without preprocessing holds a fold table,
\* evaluate is given a distribution for every estimator, and the call ends
\* in _param_sets with an AttributeError, before any cross-validation
C12_Witness ==
    /\ ParamMapBuilt
    /\ ev.preprocessing.none
    /\ ev.has_dout /\ table_cases(ev.dout) = {NoCase}
    /\ \A e \in ev.estimators_ : has_param_dict(ev.param_dicts_, e)
    /\ call.outcome = "AttributeError"
    /\ Count(call.events, "cross_validate") = 0

\* an Evaluator with two preprocessing cases evaluated two estimators on a
\* cached fold table: four estimator-case names in the parameter map
C12_MappingWitness ==
    /\ ParamMapBuilt /\ call.outcome = "ok" /\ call.had_dout /\ ~call.reset
    /\ ev.preprocessing.cases = Cases
    /\ ev.estimators_ = Estimators
    /\ Cardinality(map_names(ev.param_map)) = 4
    /\ Len(out) > 0

====
